---------------------------- MODULE Spec2Model ----------------------------
(***************************************************************************)
(* Model of voice_controlled_dashboard.py, "Dashboard" section: the        *)
(* Streamlit session state (selected_items, selected_payments, date_range, *)
(* voice_transcript), the widgets that feed it, the voice command          *)
(* interpretation block and the df_filtered query.  One action is one run  *)
(* of the script, started by one user interaction or by st.rerun().        *)
(*                                                                         *)
(* Text is handled as the script handles it: str.lower(), the substring    *)
(* test `a in b`, str.split() and " ".join() work on sequences of          *)
(* characters.  Instants are seconds; a date is an instant at 00:00:00.    *)
(***************************************************************************)
EXTENDS Integers, Sequences, FiniteSets, TLC

(***************************************************************************)
(* Bounds of the model.                                                    *)
(***************************************************************************)
\* Number of clock steps (half days) the session lasts.
MaxTicks == 1

(***************************************************************************)
(* Text                                                                    *)
(***************************************************************************)
\* The characters of each string literal used below.
Chars(s) ==
    CASE s = "" -> <<>>
      [] s = "Belt" -> <<"B", "e", "l", "t">>
      [] s = "Skirt" -> <<"S", "k", "i", "r", "t">>
      [] s = "Cash" -> <<"C", "a", "s", "h">>
      [] s = "Credit Card" -> <<"C", "r", "e", "d", "i", "t", " ", "C", "a", "r", "d">>
      [] s = "reset all filters" -> <<"r", "e", "s", "e", "t", " ", "a", "l", "l", " ", "f", "i", "l", "t", "e", "r", "s">>
      [] s = "clear all filters" -> <<"c", "l", "e", "a", "r", " ", "a", "l", "l", " ", "f", "i", "l", "t", "e", "r", "s">>
      [] s = "reset dashboard" -> <<"r", "e", "s", "e", "t", " ", "d", "a", "s", "h", "b", "o", "a", "r", "d">>
      [] s = "clear dashboard" -> <<"c", "l", "e", "a", "r", " ", "d", "a", "s", "h", "b", "o", "a", "r", "d">>
      [] s = "for " -> <<"f", "o", "r", " ">>
      [] s = "by " -> <<"b", "y", " ">>
      [] s = "from" -> <<"f", "r", "o", "m">>
      [] s = "to" -> <<"t", "o">>
      [] s = "last" -> <<"l", "a", "s", "t">>
      [] s = "month" -> <<"m", "o", "n", "t", "h">>
      [] s = "week" -> <<"w", "e", "e", "k">>
      [] s = "year" -> <<"y", "e", "a", "r">>
      [] s = "january" -> <<"j", "a", "n", "u", "a", "r", "y">>
      [] s = "march" -> <<"m", "a", "r", "c", "h">>
      [] s = "today" -> <<"t", "o", "d", "a", "y">>
      [] s = "0000" -> <<"0", "0", "0", "0">>
      [] s = "day" -> <<"d", "a", "y">>
      [] s = "days" -> <<"d", "a", "y", "s">>
      [] s = "weeks" -> <<"w", "e", "e", "k", "s">>
      [] s = "months" -> <<"m", "o", "n", "t", "h", "s">>
      [] s = "years" -> <<"y", "e", "a", "r", "s">>
      [] s = "5" -> <<"5">>
      [] s = "Show Belt paid by cash" -> <<"S", "h", "o", "w", " ", "B", "e", "l", "t", " ", "p", "a", "i", "d", " ", "b", "y", " ", "c", "a", "s", "h">>
      [] s = "Reset all filters for skirt from january to march" -> <<"R", "e", "s", "e", "t", " ", "a", "l", "l", " ", "f", "i", "l", "t", "e", "r", "s", " ", "f", "o", "r", " ", "s", "k", "i", "r", "t", " ", "f", "r", "o", "m", " ", "j", "a", "n", "u", "a", "r", "y", " ", "t", "o", " ", "m", "a", "r", "c", "h">>
      [] s = "from march to january" -> <<"f", "r", "o", "m", " ", "m", "a", "r", "c", "h", " ", "t", "o", " ", "j", "a", "n", "u", "a", "r", "y">>
      [] s = "from january to march" -> <<"f", "r", "o", "m", " ", "j", "a", "n", "u", "a", "r", "y", " ", "t", "o", " ", "m", "a", "r", "c", "h">>
      [] s = "from january to today" -> <<"f", "r", "o", "m", " ", "j", "a", "n", "u", "a", "r", "y", " ", "t", "o", " ", "t", "o", "d", "a", "y">>
      [] s = "last 5 days" -> <<"l", "a", "s", "t", " ", "5", " ", "d", "a", "y", "s">>
      [] s = "last week" -> <<"l", "a", "s", "t", " ", "w", "e", "e", "k">>
      [] s = "last year" -> <<"l", "a", "s", "t", " ", "y", "e", "a", "r">>
      [] s = "hello" -> <<"h", "e", "l", "l", "o">>
      [] s = "skirt from 0000 to march" -> <<"s", "k", "i", "r", "t", " ", "f", "r", "o", "m", " ", "0", "0", "0", "0", " ", "t", "o", " ", "m", "a", "r", "c", "h">>
      [] s = "from here to there" -> <<"f", "r", "o", "m", " ", "h", "e", "r", "e", " ", "t", "o", " ", "t", "h", "e", "r", "e">>
      [] s = "belts by credit card last month" -> <<"b", "e", "l", "t", "s", " ", "b", "y", " ", "c", "r", "e", "d", "i", "t", " ", "c", "a", "r", "d", " ", "l", "a", "s", "t", " ", "m", "o", "n", "t", "h">>

\* str.lower() on one character; transcripts hold only the capitals below.
LowerChar(c) ==
    CASE c = "B" -> "b"
      [] c = "C" -> "c"
      [] c = "R" -> "r"
      [] c = "S" -> "s"
      [] OTHER -> c

\* str.lower(), as a sequence
Lower(cs) == <<>> \o [i \in 1..Len(cs) |-> LowerChar(cs[i])]

\* Python's `needle in hay` on strings (n, h: the two strings, evaluated once)
Contains(needle, hay) ==
    \E n \in {needle}, h \in {hay} :
        \E i \in 0..(Len(h) - Len(n)) :
            \A j \in 1..Len(n) : h[i + j] = n[j]

\* str.split(): the maximal runs of non-blank characters, in order
RECURSIVE SplitFrom(_, _, _)
SplitFrom(cs, i, word) ==
    IF i > Len(cs)
    THEN IF word = <<>> THEN <<>> ELSE <<word>>
    ELSE IF cs[i] = " "
         THEN (IF word = <<>> THEN <<>> ELSE <<word>>) \o SplitFrom(cs, i + 1, <<>>)
         ELSE SplitFrom(cs, i + 1, Append(word, cs[i]))

Split(cs) == SplitFrom(cs, 1, <<>>)

\* " ".join(words)
RECURSIVE Join(_)
Join(words) ==
    IF words = <<>> THEN <<>>
    ELSE IF Len(words) = 1 THEN words[1]
    ELSE words[1] \o <<" ">> \o Join(Tail(words))

\* `w in words`
InWords(w, words) == \E i \in 1..Len(words) : words[i] = w

\* words.index(w) if w in words else -1   (0-based, first occurrence)
IndexOf(w, words) ==
    IF InWords(w, words)
    THEN (CHOOSE i \in 1..Len(words) :
              /\ words[i] = w
              /\ \A j \in 1..(i - 1) : words[j] # w) - 1
    ELSE -1

\* words[a:b] with 0 <= a (Python slice, 0-based, b exclusive)
Slice(words, a, b) == SubSeq(words, a + 1, IF b < Len(words) THEN b ELSE Len(words))

(***************************************************************************)
(* Time                                                                    *)
(***************************************************************************)
SecondsPerDay == 24 * 60 * 60

\* the instant 00:00:00 of day number n
Day(n) == n * SecondsPerDay

\* timedelta(days=n)
timedelta(n) == n * SecondsPerDay

\* datetime.date(): the instant's calendar day (00:00:00 of it)
DateOf(t) == t - (t % SecondsPerDay)

\* datetime.now() when the session starts: noon of day 3
NowStart == Day(3) + 12 * 60 * 60

\* the clock moves in half days
ClockStep == 12 * 60 * 60

(***************************************************************************)
(* The loaded table (load_data).  A missing cell (NaN, NaT) is <<>>, a     *)
(* present one is <<value>>.  "Date Purchase" is parsed with %d-%m-%Y, so  *)
(* every present date is at 00:00:00.                                      *)
(***************************************************************************)
df ==
    << [item |-> <<"Belt">>,  payment |-> <<"Cash">>,        amount |-> <<10>>, date |-> <<Day(1)>>],
       [item |-> <<"Skirt">>, payment |-> <<"Credit Card">>, amount |-> <<20>>, date |-> <<Day(2)>>],
       [item |-> <<"Belt">>,  payment |-> <<"Credit Card">>, amount |-> <<>>,   date |-> <<Day(2)>>],
       [item |-> <<"Skirt">>, payment |-> <<"Cash">>,        amount |-> <<30>>, date |-> <<>>],
       [item |-> <<"Belt">>,  payment |-> <<"Cash">>,        amount |-> <<40>>, date |-> <<Day(3)>>] >>

Rows == 1..Len(df)

\* sorted(df["Item Purchased"].dropna().unique())
all_items == {df[r].item[1] : r \in {q \in Rows : df[q].item # <<>>}}

\* sorted(df["Payment Method"].dropna().unique())
all_payments == {df[r].payment[1] : r \in {q \in Rows : df[q].payment # <<>>}}

PresentDates == {df[r].date[1] : r \in {q \in Rows : df[q].date # <<>>}}

\* df["Date Purchase"].min(), .max(): NaT is skipped
min_date_data == CHOOSE d \in PresentDates : \A e \in PresentDates : d <= e
max_date_data == CHOOSE d \in PresentDates : \A e \in PresentDates : d >= e

(***************************************************************************)
(* The transcripts the transcription service returns for the recorded      *)
(* commands, as it spells them.                                            *)
(***************************************************************************)
Utterances ==
    { "Show Belt paid by cash",
      "Reset all filters for skirt from january to march",
      "from march to january",
      "from january to march",
      "from january to today",
      "last 5 days",
      "last week",
      "last year",
      "hello",
      "skirt from 0000 to march",
      "from here to there",
      "belts by credit card last month" }

(***************************************************************************)
(* dateparser.parse(phrase), the natural-language date parser, at clock    *)
(* reading `at`: a date-time, None, or an exception.  A month name gives   *)
(* 00:00:00 of a day of that month, "today" gives the current instant with *)
(* its time of day, "0000" stands for a phrase the parser raises on.       *)
(***************************************************************************)
dateparser_parse(phrase, at) ==
    CASE phrase = Chars("january") -> [kind |-> "date", value |-> Day(2)]
      [] phrase = Chars("march")   -> [kind |-> "date", value |-> Day(3)]
      [] phrase = Chars("today")   -> [kind |-> "date", value |-> at]
      [] phrase = Chars("0000")    -> [kind |-> "raise", value |-> 0]
      [] OTHER                     -> [kind |-> "none", value |-> 0]

(***************************************************************************)
(* Voice command interpretation (lines 110-168)                            *)
(***************************************************************************)
reset_keywords ==
    { Chars("reset all filters"), Chars("clear all filters"),
      Chars("reset dashboard"), Chars("clear dashboard") }

IsResetWhole(transcript_lower) == transcript_lower \in reset_keywords

\* any(keyword in transcript_lower for keyword in reset_keywords)
IsReset(transcript_lower) ==
    \E keyword \in reset_keywords : Contains(keyword, transcript_lower)

\* the items appended to potential_items
potential_items(transcript_lower) ==
    { item \in all_items :
        \/ Contains(Lower(Chars(item)), transcript_lower)
        \/ Contains(Chars("for ") \o Lower(Chars(item)), transcript_lower) }

\* the payment methods appended to potential_payments
potential_payments(transcript_lower) ==
    { payment \in all_payments :
        \/ Contains(Lower(Chars(payment)), transcript_lower)
        \/ Contains(Chars("by ") \o Lower(Chars(payment)), transcript_lower) }

ApplySelectionAlways(potential, selected) == potential

ApplySelectionToggle(potential, selected) ==
    (selected \ potential) \cup (potential \ selected)

ApplySelectionMerge(potential, selected) ==
    IF potential # {} THEN potential \cup selected ELSE selected

\* if potential: st.session_state.<selection> = potential
ApplySelection(potential, selected) ==
    IF potential # {} THEN potential ELSE selected

\* the explicit "from X to Y" branch: the two phrases and what they parse to
ExplicitPhrases(words) ==
    LET from_index == IndexOf(Chars("from"), words)
        to_index   == IndexOf(Chars("to"), words)
    IN  [ taken |-> from_index # -1 /\ to_index # -1 /\ from_index < to_index,
          start_date_raw |-> Join(Slice(words, from_index + 1, to_index)),
          end_date_raw   |-> Join(Slice(words, to_index + 1, Len(words))) ]

ExplicitEndOfDay(parsed_end_date) == DateOf(parsed_end_date) + SecondsPerDay - 1

\* line 152: the end of the range the explicit branch stores
ExplicitEnd(parsed_end_date) == parsed_end_date

OnDateErrorFullSpan(range) == <<min_date_data, max_date_data>>

\* lines 165-166: the except clause warns and leaves date_range as it was
OnDateError(range) == range

\* start_date of the "last" branch
RelativeStart(words, end_date) ==
    IF InWords(Chars("month"), words) THEN end_date - timedelta(30)
    ELSE IF InWords(Chars("week"), words) THEN end_date - timedelta(7)
    ELSE IF InWords(Chars("year"), words) THEN end_date - timedelta(365)
    ELSE end_date

\* the try block on the words of the transcript: the new date_range, and
\* whether the except clause ran
ParseDates(words, range, at) ==
    LET ex == ExplicitPhrases(words)
    IN  IF ex.taken
        THEN LET parsed_start_date == dateparser_parse(ex.start_date_raw, at)
                 parsed_end_date   == dateparser_parse(ex.end_date_raw, at)
             IN  IF parsed_start_date.kind = "raise" \/ parsed_end_date.kind = "raise"
                 THEN [date_range |-> OnDateError(range), warning |-> TRUE]
                 ELSE IF parsed_start_date.kind = "date" /\ parsed_end_date.kind = "date"
                 THEN [date_range |-> <<parsed_start_date.value,
                                        ExplicitEnd(parsed_end_date.value)>>,
                       warning |-> FALSE]
                 ELSE [date_range |-> range, warning |-> FALSE]
        ELSE IF InWords(Chars("last"), words)
        THEN LET end_date   == at
                 start_date == RelativeStart(words, end_date)
             IN  [date_range |-> <<DateOf(start_date), DateOf(end_date)>>,
                  warning |-> FALSE]
        ELSE [date_range |-> range, warning |-> FALSE]

\* The session's filter values and transcript.
Session(items, payments, range, transcript) ==
    [selected_items |-> items, selected_payments |-> payments,
     date_range |-> range, voice_transcript |-> transcript]

\* the values of lines 61-65 and of every reset
DefaultItems == all_items
DefaultPayments == all_payments
DefaultRange == <<min_date_data, max_date_data>>

\* What lines 111-142 compute from the transcript alone: the reset test, the
\* matched items and payment methods, and the words of the date stage.
Understand(transcript) ==
    LET transcript_lower == Lower(Chars(transcript))
    IN  [ reset |-> IsReset(transcript_lower),
          potential_items |-> potential_items(transcript_lower),
          potential_payments |-> potential_payments(transcript_lower),
          words |-> Split(transcript_lower) ]

\* Understand, computed once for each transcript
Understood == {<<u, Understand(u)>> : u \in Utterances}

\* The block under `if st.session_state.voice_transcript:` on session s:
\* the session it leaves, whether it ended in st.rerun(), the stages it went
\* through and whether it warned.
Interpret(s, at) ==
    LET heard == (CHOOSE p \in Understood : p[1] = s.voice_transcript)[2]
    IN  IF heard.reset
        THEN [s |-> Session(DefaultItems, DefaultPayments, DefaultRange, ""),
              ran |-> TRUE, rerun |-> TRUE, stages |-> {}, warning |-> FALSE]
        ELSE LET items    == ApplySelection(heard.potential_items, s.selected_items)
                 payments == ApplySelection(heard.potential_payments,
                                            s.selected_payments)
                 dates    == ParseDates(heard.words, s.date_range, at)
             IN  [s |-> Session(items, payments, dates.date_range, ""),
                  ran |-> TRUE, rerun |-> FALSE,
                  stages |-> {"items", "payments", "dates"},
                  warning |-> dates.warning]

\* line 110: the block runs only on a non-empty transcript
VoiceBlock(s, at) ==
    IF s.voice_transcript # ""
    THEN Interpret(s, at)
    ELSE [s |-> s, ran |-> FALSE, rerun |-> FALSE, stages |-> {}, warning |-> FALSE]

(***************************************************************************)
(* The query (lines 170-175)                                               *)
(***************************************************************************)
InRangeExclusive(date, range) == date >= range[1] /\ date < range[2]

\* (date >= pd.to_datetime(range[0])) & (date <= pd.to_datetime(range[1]))
InRange(date, range) == date >= range[1] /\ date <= range[2]

\* the boolean mask of df[...]; a comparison with NaT and isin of NaN are False
Mask(r, s) ==
    /\ df[r].item # <<>> /\ df[r].item[1] \in s.selected_items
    /\ df[r].payment # <<>> /\ df[r].payment[1] \in s.selected_payments
    /\ df[r].date # <<>> /\ InRange(df[r].date[1], s.date_range)

\* .dropna(subset=["Purchase Amount (USD)", "Date Purchase"])
Query(s) ==
    {r \in {q \in Rows : Mask(q, s)} : df[r].amount # <<>> /\ df[r].date # <<>>}

(***************************************************************************)
(* Widgets                                                                 *)
(***************************************************************************)
\* st.audio_input holds no recording
NoAudio == ""

\* the days st.date_input offers: min_value .. max_value
CalendarDays ==
    {min_date_data + timedelta(k) :
        k \in 0..((max_date_data - min_date_data) \div SecondsPerDay)}

\* st.date_input rejects a value outside [min_value, max_value] with an exception
DateInputRaises(value) ==
    DateOf(value[1]) < min_date_data \/ DateOf(value[2]) > max_date_data

\* st.date_input returns dates: the value it is given, without time of day
date_input(value) == <<DateOf(value[1]), DateOf(value[2])>>

(***************************************************************************)
(* State                                                                   *)
(***************************************************************************)
VARIABLES
    selected_items,     \* st.session_state.selected_items
    selected_payments,  \* st.session_state.selected_payments
    date_range,         \* st.session_state.date_range, <<start, end>>
    voice_transcript,   \* st.session_state.voice_transcript
    audio,              \* the recording st.audio_input holds (what was said), or NoAudio
    now,                \* datetime.now()
    ticks,              \* clock steps taken
    outcome,            \* how the last script run ended: rendered, rerun, error
    df_filtered,        \* the rows of the last rendered query
    passes,             \* history: passes that interpreted the recording held
                        \* by st.audio_input (0, 1, or 2 for more than one)
    pass                \* history: the interpretation pass of the last run

vars == <<selected_items, selected_payments, date_range, voice_transcript, audio,
          now, ticks, outcome, df_filtered, passes, pass>>

NoPass ==
    [ran |-> FALSE, text |-> "", at |-> 0,
     before |-> Session({}, {}, <<0, 0>>, ""),
     stages |-> {}, warning |-> FALSE]

Min(a, b) == IF a < b THEN a ELSE b

\* Lines 60-67 on a fresh session, then a first run with nothing recorded.
Init ==
    /\ selected_items = DefaultItems
    /\ selected_payments = DefaultPayments
    /\ date_range = DefaultRange
    /\ voice_transcript = ""
    /\ audio = NoAudio
    /\ now = NowStart
    /\ ticks = 0
    /\ outcome = "rendered"
    /\ df_filtered = Query(Session(DefaultItems, DefaultPayments, DefaultRange, ""))
    /\ passes = 0
    /\ pass = NoPass

(***************************************************************************)
(* One run of the script (lines 58-175).  trig is the interaction that     *)
(* started it, ok whether the transcription call returned a transcript.    *)
(***************************************************************************)
\* lines 72-81: the recording the widget holds is transcribed in every run
Transcribe(aud, ok) ==
    IF aud # NoAudio
    THEN IF ok THEN aud ELSE ""
    ELSE voice_transcript

ScriptRun(trig, ok) ==
    LET aud == IF trig.kind = "record" THEN trig.value
               ELSE IF trig.kind = "clear" THEN NoAudio ELSE audio
        heard == Transcribe(aud, ok)
        count == IF trig.kind \in {"record", "clear"} THEN 0 ELSE passes
        items == IF trig.kind = "items" THEN trig.value ELSE selected_items
        payments == IF trig.kind = "payments" THEN trig.value ELSE selected_payments
        value == IF trig.kind = "date" THEN trig.value ELSE date_range
        s == Session(items, payments, date_input(value), heard)
    IN  /\ audio' = aud
        /\ UNCHANGED <<now, ticks>>
        /\ IF trig.kind = "reset"
           THEN \* lines 88-92: the button, then st.rerun()
                /\ selected_items' = DefaultItems
                /\ selected_payments' = DefaultPayments
                /\ date_range' = DefaultRange
                /\ voice_transcript' = heard
                /\ outcome' = "rerun"
                /\ pass' = NoPass
                /\ passes' = count
                /\ UNCHANGED df_filtered
           ELSE IF DateInputRaises(value)
           THEN \* lines 95-103: st.date_input raises, the run ends there
                /\ selected_items' = items
                /\ selected_payments' = payments
                /\ voice_transcript' = heard
                /\ outcome' = "error"
                /\ pass' = NoPass
                /\ passes' = count
                /\ UNCHANGED <<date_range, df_filtered>>
           ELSE \* lines 95-175
                \E res \in {VoiceBlock(s, now)} :
                    /\ selected_items' = res.s.selected_items
                    /\ selected_payments' = res.s.selected_payments
                    /\ date_range' = res.s.date_range
                    /\ voice_transcript' = res.s.voice_transcript
                    /\ passes' = IF res.ran /\ aud # NoAudio
                                  THEN Min(count + 1, 2) ELSE count
                    /\ pass' = IF res.ran
                                THEN [ran |-> TRUE, text |-> s.voice_transcript,
                                      at |-> now, before |-> s,
                                      stages |-> res.stages, warning |-> res.warning]
                                ELSE NoPass
                    /\ outcome' = IF res.rerun THEN "rerun" ELSE "rendered"
                    /\ df_filtered' = IF res.rerun THEN df_filtered ELSE Query(res.s)

\* whether the transcription call returns a transcript, when there is a recording
Answers(aud) == IF aud = NoAudio THEN {TRUE} ELSE BOOLEAN

Trigger(kind, value) == [kind |-> kind, value |-> value]

\* the user records a voice command
Record ==
    /\ outcome # "rerun"
    /\ \E u \in Utterances, ok \in BOOLEAN : ScriptRun(Trigger("record", u), ok)

\* the user deletes the recording
ClearRecording ==
    /\ outcome # "rerun"
    /\ audio # NoAudio
    /\ ScriptRun(Trigger("clear", 0), TRUE)

\* the user clicks "Reset All Filters"
ClickReset ==
    /\ outcome # "rerun"
    /\ \E ok \in Answers(audio) : ScriptRun(Trigger("reset", 0), ok)

\* the user changes the item multiselect
EditItems ==
    /\ outcome # "rerun"
    /\ \E v \in SUBSET all_items, ok \in Answers(audio) :
          ScriptRun(Trigger("items", v), ok)

\* the user changes the payment multiselect
EditPayments ==
    /\ outcome # "rerun"
    /\ \E v \in SUBSET all_payments, ok \in Answers(audio) :
          ScriptRun(Trigger("payments", v), ok)

\* the user picks a range in the date input
EditDate ==
    /\ outcome = "rendered"
    /\ \E a \in CalendarDays, b \in CalendarDays, ok \in Answers(audio) :
          /\ a <= b
          /\ ScriptRun(Trigger("date", <<a, b>>), ok)

\* the run that st.rerun() starts
Rerun ==
    /\ outcome = "rerun"
    /\ \E ok \in Answers(audio) : ScriptRun(Trigger("rerun", 0), ok)

\* time passes
Tick ==
    /\ ticks < MaxTicks
    /\ now' = now + ClockStep
    /\ ticks' = ticks + 1
    /\ UNCHANGED <<selected_items, selected_payments, date_range, voice_transcript,
                   audio, outcome, df_filtered, passes, pass>>

Next ==
    \/ Record
    \/ ClearRecording
    \/ ClickReset
    \/ EditItems
    \/ EditPayments
    \/ EditDate
    \/ Rerun
    \/ Tick

Spec == Init /\ [][Next]_vars

(***************************************************************************)
(* Properties                                                              *)
(***************************************************************************)
\* the lower-cased transcript of the last pass, and its words
PassLower == Lower(Chars(pass.text))
PassWords == Split(PassLower)

\* the known names whose lower-cased form is a substring of the transcript
NamedItems == {item \in all_items : Contains(Lower(Chars(item)), PassLower)}
NamedPayments ==
    {payment \in all_payments : Contains(Lower(Chars(payment)), PassLower)}

\* the transcript of the last pass contains a reset keyword
SaysReset == \E keyword \in reset_keywords : Contains(keyword, PassLower)

\* the last run interpreted a transcript without a reset keyword
PlainPass == pass.ran /\ ~SaysReset

\* the full-dataset values
AllItems == {df[r].item[1] : r \in Rows}
AllPayments == {df[r].payment[1] : r \in Rows}
FullSpan ==
    << CHOOSE d \in PresentDates : \A e \in PresentDates : d <= e,
       CHOOSE d \in PresentDates : \A e \in PresentDates : e <= d >>

(* C1: a transcript that contains a reset keyword leaves the full-dataset
   items, payment methods and date span, whatever else it says and whatever
   the filters were, and none of the item, payment and date stages runs. *)
C1_ResetPriority ==
    (pass.ran /\ SaysReset) =>
        /\ selected_items = AllItems
        /\ selected_payments = AllPayments
        /\ date_range = FullSpan
        /\ pass.stages = {}

\* a reset command that also names an item and a date range, given while the
\* filters were narrowed
C1_Witness ==
    /\ pass.ran /\ SaysReset
    /\ NamedItems # {}
    /\ ExplicitPhrases(PassWords).taken
    /\ pass.before.selected_items # AllItems
    /\ pass.before.date_range # FullSpan

(* C2: the transcript of one recorded utterance is interpreted by exactly
   one pass and never again: the recording that st.audio_input holds has
   never been interpreted by more than one pass. *)
C2_InterpretedOnce == passes <= 1

\* no word of the transcript is "last" or parses as a date
NoDateContent ==
    /\ ~InWords(Chars("last"), PassWords)
    /\ \A i \in 1..Len(PassWords) :
          dateparser_parse(PassWords[i], pass.at).kind = "none"

(* C3: a transcript with no reset keyword, no known item, no known payment
   method and no date content leaves items, payments and date range as they
   were when the pass began. *)
C3_UnrecognisedIsNoOp ==
    (PlainPass /\ NamedItems = {} /\ NamedPayments = {} /\ NoDateContent) =>
        /\ selected_items = pass.before.selected_items
        /\ selected_payments = pass.before.selected_payments
        /\ date_range = pass.before.date_range

C3_Witness ==
    /\ PlainPass /\ NamedItems = {} /\ NamedPayments = {} /\ NoDateContent
    /\ pass.before.selected_items # AllItems
    /\ pass.before.date_range # FullSpan

(* C4: interpreting a non-reset transcript a second time, at the same clock
   reading and with no edit in between, changes nothing: the filters after
   the pass are a fixed point of the pass. *)
C4_Idempotent ==
    PlainPass =>
        LET again == Interpret(Session(selected_items, selected_payments,
                                       date_range, pass.text), pass.at).s
        IN  /\ again.selected_items = selected_items
            /\ again.selected_payments = selected_payments
            /\ again.date_range = date_range

\* a pass that changed all three dimensions
C4_Witness ==
    /\ PlainPass
    /\ selected_items # pass.before.selected_items
    /\ selected_payments # pass.before.selected_payments
    /\ date_range # pass.before.date_range

(* C5: after a non-reset transcript, selected_items is exactly the set of
   known items named in it when that set is not empty (the previous selection
   is replaced), and is unchanged when it is empty; the same for payment
   methods.  "Show Belt paid by cash" gives {Belt} and {Cash}. *)
C5_VoiceOverride ==
    PlainPass =>
        /\ selected_items =
              IF NamedItems # {} THEN NamedItems ELSE pass.before.selected_items
        /\ selected_payments =
              IF NamedPayments # {} THEN NamedPayments
              ELSE pass.before.selected_payments
        /\ pass.text = "Show Belt paid by cash" =>
              selected_items = {"Belt"} /\ selected_payments = {"Cash"}

\* the example, said while Belt was deselected
C5_Witness ==
    /\ PlainPass
    /\ pass.text = "Show Belt paid by cash"
    /\ pass.before.selected_items = {"Skirt"}
    /\ pass.before.selected_payments = {"Credit Card"}

\* the explicit branch of the last pass stored a range: both phrases parsed
ExplicitSucceeded ==
    /\ PlainPass
    /\ ExplicitPhrases(PassWords).taken
    /\ dateparser_parse(ExplicitPhrases(PassWords).start_date_raw, pass.at).kind = "date"
    /\ dateparser_parse(ExplicitPhrases(PassWords).end_date_raw, pass.at).kind = "date"

ParsedEnd == dateparser_parse(ExplicitPhrases(PassWords).end_date_raw, pass.at).value

\* the rows dated on the calendar day of instant t
RowsOn(t) == {r \in Rows : df[r].date # <<>> /\ DateOf(df[r].date[1]) = DateOf(t)}

(* C6, as claimed: when the explicit branch succeeds the stored end is the
   parsed end date with its time forced to 23:59:59. *)
C6_EndOfDayForced ==
    ExplicitSucceeded => date_range[2] = DateOf(ParsedEnd) + SecondsPerDay - 1

(* C6, amended: when the explicit branch succeeds the stored end is the
   parsed end date-time as the parser returned it; every transaction dated on
   that day is still not after the end of the range. *)
C6_EndAsParsed ==
    ExplicitSucceeded =>
        /\ date_range[2] = ParsedEnd
        /\ \A r \in RowsOn(ParsedEnd) : df[r].date[1] <= date_range[2]

\* an explicit range whose end day has a transaction
C6_Witness ==
    /\ ExplicitSucceeded
    /\ RowsOn(ParsedEnd) # {}
    /\ pass.before.date_range[2] # ParsedEnd

(* C7: "last N units" gives [T - duration, T] with duration 1 day, 1 week,
   30 days or 365 days, times the count N when one is given; read here at
   the granularity of days.  "last 5 days" gives [T - 5 days, T]. *)
UnitDays(word) ==
    CASE word \in {Chars("day"), Chars("days")} -> 1
      [] word \in {Chars("week"), Chars("weeks")} -> 7
      [] word \in {Chars("month"), Chars("months")} -> 30
      [] word \in {Chars("year"), Chars("years")} -> 365
      [] OTHER -> 0

Count(word) == IF word = Chars("5") THEN 5 ELSE 0

\* the days the claim gives the words that follow "last"
ClaimedDays ==
    LET i == IndexOf(Chars("last"), PassWords) + 1
        first == IF i + 1 <= Len(PassWords) THEN PassWords[i + 1] ELSE <<>>
        second == IF i + 2 <= Len(PassWords) THEN PassWords[i + 2] ELSE <<>>
    IN  IF UnitDays(first) > 0 THEN UnitDays(first)
        ELSE Count(first) * UnitDays(second)

RelativePass ==
    /\ PlainPass
    /\ ~ExplicitPhrases(PassWords).taken
    /\ InWords(Chars("last"), PassWords)
    /\ ClaimedDays > 0

C7_LastNUnits ==
    RelativePass =>
        /\ DateOf(date_range[1]) = DateOf(pass.at - timedelta(ClaimedDays))
        /\ DateOf(date_range[2]) = DateOf(pass.at)

(* C8: when the date stage raises, the pass still completes with a warning,
   the items and payment methods it matched stay selected, date_range keeps
   the value it had when the pass began, and the transcript is cleared. *)
DateStageRaises ==
    /\ PlainPass
    /\ ExplicitPhrases(PassWords).taken
    /\ \/ dateparser_parse(ExplicitPhrases(PassWords).start_date_raw, pass.at).kind = "raise"
       \/ dateparser_parse(ExplicitPhrases(PassWords).end_date_raw, pass.at).kind = "raise"

C8_DateFailureIsolated ==
    DateStageRaises =>
        /\ pass.warning
        /\ outcome = "rendered"
        /\ selected_items =
              IF NamedItems # {} THEN NamedItems ELSE pass.before.selected_items
        /\ selected_payments =
              IF NamedPayments # {} THEN NamedPayments
              ELSE pass.before.selected_payments
        /\ date_range = pass.before.date_range
        /\ voice_transcript = ""

\* the date stage raised after an item was matched, with a narrowed range
C8_Witness ==
    /\ DateStageRaises
    /\ NamedItems # {}
    /\ selected_items # pass.before.selected_items
    /\ pass.before.date_range # FullSpan

(* C9: a row is in the filtered result exactly when its item is selected,
   its payment method is selected, its date is present and within the range
   (both ends included) and its amount is present; no selected item gives an
   empty result. *)
Retained(r) ==
    /\ df[r].item # <<>> /\ df[r].item[1] \in selected_items
    /\ df[r].payment # <<>> /\ df[r].payment[1] \in selected_payments
    /\ df[r].date # <<>>
    /\ date_range[1] <= df[r].date[1]
    /\ df[r].date[1] <= date_range[2]
    /\ df[r].amount # <<>>

C9_RetentionRule ==
    outcome = "rendered" =>
        /\ \A r \in Rows : r \in df_filtered <=> Retained(r)
        /\ selected_items = {} => df_filtered = {}

\* a result that keeps a row dated on the last day of the range and drops others
C9_Witness ==
    /\ outcome = "rendered"
    /\ \E r \in df_filtered : df[r].date[1] = date_range[2]
    /\ \E r \in Rows : r \notin df_filtered /\ df[r].amount # <<>> /\ df[r].date # <<>>

(* C10: in every reachable state date_range.start <= date_range.end. *)
C10_StartNotAfterEnd == date_range[1] <= date_range[2]
=============================================================================
